---- MODULE Spec2Model ----
(***************************************************************************)
(* A model of expression/expression.go: the shared coercion base of        *)
(* Constant (baseExpr), the normal-form composer and splitter, the         *)
(* null-substitution folder (EvaluateExprWithNull) and the derivation of   *)
(* a schema's unique keys from table metadata (TableInfo2Schema).          *)
(***************************************************************************)
EXTENDS FiniteSets, Integers, Sequences

VARIABLES
    pc,          \* position of the caller in the scenario being run
    ctx,         \* the context handed to NewFunction: the calls that fail
    conditions,  \* operand list handed to the composer
    onExpr,      \* expression handed to the splitter / folder
    composedOp,  \* operator the composer was run with, NoOp if it was not
    items,       \* result of the splitter
    splitOp,     \* operator the splitter was run with
    tbl,         \* table metadata handed to TableInfo2Schema
    schema,      \* the schema TableInfo2Schema returned
    nullSchema,  \* the schema handed to EvaluateExprWithNull
    folded,      \* what EvaluateExprWithNull returned: expression and error
    heap,        \* the expression objects, by address
    ret          \* the last typed evaluation: receiver, method and result

nfVars == <<ctx, conditions, onExpr, composedOp, items, splitOp>>
schemaVars == <<tbl, schema>>
foldVars == <<nullSchema, folded>>
evalVars == <<heap, ret>>

vars == <<pc, nfVars, schemaVars, foldVars, evalVars>>

----------------------------------------------------------------------------
(* Bounds of the model. *)

MaxLen == 4        \* longest operand list handed to the composer
MaxLeaves == 4     \* most leaves of an expression tree handed to the splitter
MaxIdx == 2        \* most indices of a table
FoldLeaves == 3    \* most leaves of an expression tree handed to the folder

----------------------------------------------------------------------------
(* Values, types and expression nodes. *)

KindNull == "KindNull"
KindInt64 == "KindInt64"
KindString == "KindString"

\* types.Datum{} and types.NewDatum(nil) are both the null datum.
NullDatum == [k |-> KindNull, i |-> 0, s |-> ""]
IntDatum(n) == [k |-> KindInt64, i |-> n, s |-> ""]
StringDatum(str) == [k |-> KindString, i |-> 0, s |-> str]

TypeNull == "TypeNull"
TypeTiny == "TypeTiny"
TypeDouble == "TypeDouble"
TypeNewDecimal == "TypeNewDecimal"
TypeVarchar == "TypeVarchar"

NewFieldType(tp) == [Tp |-> tp]

AndAnd == "and"
OrOr == "or"
EQ == "eq"
NoOp == "none"

\* The absent expression (a nil Expression).
Nil == [kind |-> "nil"]

\* addr is the identity of the node: two nodes are the same node iff they
\* are equal, addr included.  FreshAddr is the address of a node allocated
\* by the operation under study, NilAddr the nil reference.
FreshAddr == "fresh"
NilAddr == "nil"

Column(name, addr) == [kind |-> "Column", ColName |-> name, addr |-> addr]

\* &Constant{Value: ..., RetType: ...}: the embedded baseExpr is left at its
\* zero value, self is nil.
Constant(value, retType, addr) ==
    [kind |-> "Constant", Value |-> value, RetType |-> retType, addr |-> addr,
     self |-> NilAddr]

ScalarFunction(funcName, retType, args) ==
    [kind |-> "ScalarFunction", FuncName |-> funcName, RetType |-> retType,
     Args |-> args]

IsFunc(e) == e.kind = "ScalarFunction"

GetArgs(e) == e.Args

\* NewFunction(ctx, funcName, retType, args...) (Expression, error): builds
\* the node unless construction fails; ok is the verdict for this call.
NewFunction(ok, funcName, retType, args) ==
    IF ok
    THEN [expr |-> ScalarFunction(funcName, retType, args), err |-> FALSE]
    ELSE [expr |-> Nil, err |-> TRUE]

----------------------------------------------------------------------------
(* Normal-form composer. *)

RECURSIVE composeChain(_, _, _)
composeChain(c, conds, funcName) ==
    LET length == Len(conds) IN
    IF length = 0 THEN Nil
    ELSE IF length = 1 THEN conds[1]
    ELSE NewFunction(conds \notin c.fails, funcName, NewFieldType(TypeTiny),
            << composeChain(c, SubSeq(conds, 1, 1), funcName),
               composeChain(c, SubSeq(conds, 2, length), funcName) >>).expr

RECURSIVE composeSwapped(_, _, _)
composeSwapped(c, conds, funcName) ==
    LET length == Len(conds) IN
    IF length = 0 THEN Nil
    ELSE IF length = 1 THEN conds[1]
    ELSE NewFunction(conds \notin c.fails, funcName, NewFieldType(TypeTiny),
            << composeSwapped(c, SubSeq(conds, (length \div 2) + 1, length), funcName),
               composeSwapped(c, SubSeq(conds, 1, length \div 2), funcName) >>).expr

RECURSIVE composeConditionWithBinaryOp(_, _, _)
composeConditionWithBinaryOp(c, conds, funcName) ==
    LET length == Len(conds) IN
    IF length = 0 THEN Nil
    ELSE IF length = 1 THEN conds[1]
    ELSE \* expr, _ := NewFunction(...): the error is discarded
         NewFunction(conds \notin c.fails, funcName, NewFieldType(TypeTiny),
            << composeConditionWithBinaryOp(c, SubSeq(conds, 1, length \div 2), funcName),
               composeConditionWithBinaryOp(c, SubSeq(conds, (length \div 2) + 1, length), funcName) >>).expr

\* The operand slices on which the composer calls NewFunction.
RECURSIVE ComposeCalls(_)
ComposeCalls(conds) ==
    LET length == Len(conds) IN
    IF length < 2 THEN {}
    ELSE {conds} \cup ComposeCalls(SubSeq(conds, 1, length \div 2))
                 \cup ComposeCalls(SubSeq(conds, (length \div 2) + 1, length))

----------------------------------------------------------------------------
(* Normal-form splitter. *)

RECURSIVE ConcatAll(_)
ConcatAll(ss) == IF ss = <<>> THEN <<>> ELSE Head(ss) \o ConcatAll(Tail(ss))

RECURSIVE splitAnyFunction(_, _)
splitAnyFunction(e, funcName) ==
    IF IsFunc(e)
    THEN ConcatAll([i \in 1..Len(GetArgs(e)) |->
                        splitAnyFunction(GetArgs(e)[i], funcName)])
    ELSE <<e>>

RECURSIVE splitNormalFormItems(_, _)
splitNormalFormItems(e, funcName) ==
    IF IsFunc(e) /\ e.FuncName = funcName
    THEN ConcatAll([i \in 1..Len(GetArgs(e)) |->
                        splitNormalFormItems(GetArgs(e)[i], funcName)])
    ELSE <<e>>

----------------------------------------------------------------------------
(* Inputs. *)

ColA == Column("a", "n1")
ColB == Column("b", "n2")
One == Constant(IntDatum(1), NewFieldType(TypeTiny), "One")
Zero == Constant(IntDatum(0), NewFieldType(TypeTiny), "Zero")
Null == Constant(NullDatum, NewFieldType(TypeTiny), "Null")

Atoms == {ColA, ColB, One}
Ops == {AndAnd, OrOr, EQ}

\* The shapes of the binary trees with k leaves: <<>> is a leaf, <<l, r>> a
\* node.
RECURSIVE Shapes(_)
Shapes(k) ==
    IF k = 1 THEN {<<>>}
    ELSE UNION { { <<l, r>> : l \in Shapes(i), r \in Shapes(k - i) } :
                 i \in 1..(k - 1) }

RECURSIVE LeafCount(_)
LeafCount(shape) ==
    IF shape = <<>> THEN 1 ELSE LeafCount(shape[1]) + LeafCount(shape[2])

\* The expression tree of a shape, its function names in pre-order and its
\* leaves from left to right.
RECURSIVE Tree(_, _, _)
Tree(shape, names, leaves) ==
    IF shape = <<>> THEN leaves[1]
    ELSE LET nl == LeafCount(shape[1]) IN
         ScalarFunction(names[1], NewFieldType(TypeTiny),
            << Tree(shape[1], SubSeq(names, 2, nl), SubSeq(leaves, 1, nl)),
               Tree(shape[2], SubSeq(names, nl + 1, Len(names)),
                    SubSeq(leaves, nl + 1, Len(leaves))) >>)

\* e is an expression tree of at most n leaves among atoms.
IsTreeUpTo(e, atoms, n) ==
    \E k \in 1..n :
        \E shape \in Shapes(k), names \in [1..(k - 1) -> Ops], leaves \in [1..k -> atoms] :
            e = Tree(shape, names, leaves)

\* Operands of the composer: atoms and nodes of either boolean operator.
Operands ==
    {ColA, ColB, One} \cup
    { ScalarFunction(f, NewFieldType(TypeTiny), <<ColA, One>>) : f \in {AndAnd, OrOr} }

\* Leaves of the trees handed to the splitter.
SplitAtoms == {ColA, One}

OperandLists == UNION { [1..n -> Operands] : n \in 0..MaxLen }

----------------------------------------------------------------------------
(* The composer / splitter scenario. *)

NoTable == [Name |-> [L |-> ""], Columns |-> <<>>, Indices |-> <<>>, PKIsHandle |-> FALSE]
NoSchema == [Columns |-> <<>>, UniqueKeys |-> <<>>]

SchemaIdle == tbl = NoTable /\ schema = NoSchema

NotFolded == [expr |-> Nil, err |-> FALSE]

FoldIdle == nullSchema = NoSchema /\ folded = NotFolded

Free == [kind |-> "free"]
NoCall == [method |-> "none"]

EvalIdle == heap = [a \in {} |-> Free] /\ ret = NoCall

NFIdle ==
    /\ ctx = [fails |-> {}]
    /\ conditions = <<>>
    /\ onExpr = Nil
    /\ composedOp = NoOp
    /\ splitOp = NoOp
    /\ items = <<>>

InitNF ==
    /\ pc = "start"
    /\ SchemaIdle
    /\ FoldIdle
    /\ EvalIdle
    /\ composedOp = NoOp
    /\ splitOp = NoOp
    /\ items = <<>>
    /\ \/ /\ conditions \in OperandLists
          /\ ctx \in [fails : SUBSET ComposeCalls(conditions)]
          /\ onExpr = Nil
       \/ /\ conditions = <<>>
          /\ ctx = [fails |-> {}]
          /\ IsTreeUpTo(onExpr, SplitAtoms, MaxLeaves)

ComposeCNFCondition ==
    /\ pc = "start"
    /\ onExpr = Nil
    /\ onExpr' = composeConditionWithBinaryOp(ctx, conditions, AndAnd)
    /\ composedOp' = AndAnd
    /\ pc' = "composed"
    /\ UNCHANGED <<ctx, conditions, items, splitOp>>
    /\ UNCHANGED <<schemaVars, foldVars, evalVars>>

ComposeDNFCondition ==
    /\ pc = "start"
    /\ onExpr = Nil
    /\ onExpr' = composeConditionWithBinaryOp(ctx, conditions, OrOr)
    /\ composedOp' = OrOr
    /\ pc' = "composed"
    /\ UNCHANGED <<ctx, conditions, items, splitOp>>
    /\ UNCHANGED <<schemaVars, foldVars, evalVars>>

SplitCNFItems ==
    /\ \/ pc = "composed"
       \/ pc = "start" /\ onExpr # Nil
    /\ items' = splitNormalFormItems(onExpr, AndAnd)
    /\ splitOp' = AndAnd
    /\ pc' = "split"
    /\ UNCHANGED <<ctx, conditions, onExpr, composedOp>>
    /\ UNCHANGED <<schemaVars, foldVars, evalVars>>

SplitDNFItems ==
    /\ \/ pc = "composed"
       \/ pc = "start" /\ onExpr # Nil
    /\ items' = splitNormalFormItems(onExpr, OrOr)
    /\ splitOp' = OrOr
    /\ pc' = "split"
    /\ UNCHANGED <<ctx, conditions, onExpr, composedOp>>
    /\ UNCHANGED <<schemaVars, foldVars, evalVars>>

NextNF ==
    \/ ComposeCNFCondition
    \/ ComposeDNFCondition
    \/ SplitCNFItems
    \/ SplitDNFItems

SpecNF == InitNF /\ [][NextNF]_vars

----------------------------------------------------------------------------
(* Measures on expression trees used to state the properties. *)

Max(a, b) == IF a >= b THEN a ELSE b

\* Number of operator applications on the longest root-to-leaf path.
RECURSIVE Depth(_)
Depth(e) ==
    IF IsFunc(e)
    THEN 1 + Max(Depth(GetArgs(e)[1]), Depth(GetArgs(e)[2]))
    ELSE 0

RECURSIVE Pow2(_)
Pow2(k) == IF k = 0 THEN 1 ELSE 2 * Pow2(k - 1)

\* The least k with 2^k >= n.
CeilLog2(n) == CHOOSE k \in 0..n : Pow2(k) >= n /\ \A j \in 0..(k - 1) : Pow2(j) < n

\* A node has an absent child somewhere below it.
RECURSIVE HasAbsentChild(_)
HasAbsentChild(e) ==
    /\ IsFunc(e)
    /\ \E i \in 1..Len(GetArgs(e)) :
          GetArgs(e)[i] = Nil \/ HasAbsentChild(GetArgs(e)[i])

\* Positions of a tree: the sequences of child indexes leading to a node.
RECURSIVE Paths(_)
Paths(e) ==
    IF IsFunc(e)
    THEN {<<>>} \cup UNION { { <<i>> \o p : p \in Paths(GetArgs(e)[i]) } :
                             i \in 1..Len(GetArgs(e)) }
    ELSE {<<>>}

RECURSIVE NodeAt(_, _)
NodeAt(e, p) == IF p = <<>> THEN e ELSE NodeAt(GetArgs(e)[Head(p)], Tail(p))

IsOpNode(e, op) == IsFunc(e) /\ e.FuncName = op

\* Positions reached from the root through op-nodes only, whose own node is
\* not an op-node.
Frontier(e, op) ==
    { p \in Paths(e) :
        /\ ~IsOpNode(NodeAt(e, p), op)
        /\ \A n \in 0..(Len(p) - 1) : IsOpNode(NodeAt(e, SubSeq(p, 1, n)), op) }

\* p is visited before q by a depth-first left-to-right traversal (neither
\* is a prefix of the other).
Before(p, q) ==
    \E n \in 1..Len(p) :
        /\ n <= Len(q)
        /\ SubSeq(p, 1, n - 1) = SubSeq(q, 1, n - 1)
        /\ p[n] < q[n]

Rank(F, p) == 1 + Cardinality({ q \in F : Before(q, p) })

----------------------------------------------------------------------------
(* Properties of the composer and the splitter. *)

NoBuildFailure == ctx.fails = {}

\* C1: splitting what the composer built from a non-empty list of operands,
\* none of them a node of the operator used, with the matching splitter
\* returns exactly the list: same elements, same length, same order.
C1_RoundTripOrder ==
    ( /\ pc = "split"
      /\ composedOp # NoOp
      /\ splitOp = composedOp
      /\ NoBuildFailure
      /\ conditions # <<>>
      /\ \A i \in 1..Len(conditions) : ~IsOpNode(conditions[i], composedOp) )
    => items = conditions

C1_Witness ==
    /\ pc = "split"
    /\ composedOp = AndAnd
    /\ splitOp = AndAnd
    /\ NoBuildFailure
    /\ conditions = <<ColA, ScalarFunction(OrOr, NewFieldType(TypeTiny), <<ColA, One>>), ColB, ColA>>
    /\ onExpr = ScalarFunction(AndAnd, NewFieldType(TypeTiny),
                  << ScalarFunction(AndAnd, NewFieldType(TypeTiny), <<conditions[1], conditions[2]>>),
                     ScalarFunction(AndAnd, NewFieldType(TypeTiny), <<conditions[3], conditions[4]>>) >>)
    /\ items = conditions

\* C6: when building a node fails while two or more operands are composed,
\* the construction is aborted: nothing partially built is returned.
C6_AbortOnConstructionError ==
    ( /\ pc = "composed"
      /\ Len(conditions) >= 2
      /\ ~NoBuildFailure )
    => ( /\ onExpr = Nil
         /\ ~HasAbsentChild(onExpr) )

AllAtoms(conds) == \A i \in 1..Len(conds) : conds[i] \in Atoms

\* C8: the tree composed from n >= 2 leaf operands has depth ceil(log2(n)),
\* and is never a chain of depth n-1 when n >= 4.
C8_BalanceBound ==
    ( /\ pc = "composed"
      /\ Len(conditions) >= 2
      /\ AllAtoms(conditions)
      /\ NoBuildFailure )
    => ( /\ Depth(onExpr) = CeilLog2(Len(conditions))
         /\ Len(conditions) >= 4 => Depth(onExpr) < Len(conditions) - 1 )

C8_Witness ==
    /\ pc = "composed"
    /\ composedOp = OrOr
    /\ Len(conditions) = 4
    /\ AllAtoms(conditions)
    /\ NoBuildFailure
    /\ Depth(onExpr) = 2

\* C10: on any tree the splitter returns, in depth-first left-to-right
\* order, exactly the maximal subtrees reached from the root through
\* op-nodes only whose own root is not an op-node; no item is an op-node
\* and a root that is not a function yields the input alone.
C10_SplitterFlattening ==
    pc = "split" =>
        LET F == Frontier(onExpr, splitOp) IN
        /\ Len(items) = Cardinality(F)
        /\ \A p \in F : items[Rank(F, p)] = NodeAt(onExpr, p)
        /\ \A i \in 1..Len(items) : ~IsOpNode(items[i], splitOp)
        /\ ~IsFunc(onExpr) => items = <<onExpr>>
        /\ (IsFunc(onExpr) /\ onExpr.FuncName # splitOp) => items = <<onExpr>>

C10_Witness ==
    /\ pc = "split"
    /\ composedOp = NoOp
    /\ splitOp = AndAnd
    /\ onExpr = ScalarFunction(AndAnd, NewFieldType(TypeTiny),
                  << ScalarFunction(OrOr, NewFieldType(TypeTiny),
                        << ScalarFunction(AndAnd, NewFieldType(TypeTiny), <<ColA, One>>), One >>),
                     ColA >>)
    /\ items = << ScalarFunction(OrOr, NewFieldType(TypeTiny),
                        << ScalarFunction(AndAnd, NewFieldType(TypeTiny), <<ColA, One>>), One >>),
                  ColA >>

----------------------------------------------------------------------------
(* Schema and unique-key derivation from table metadata. *)

NotNullFlag == "NotNullFlag"
PriKeyFlag == "PriKeyFlag"
HasNotNullFlag(flag) == NotNullFlag \in flag
HasPriKeyFlag(flag) == PriKeyFlag \in flag

StatePublic == "StatePublic"
StateWriteOnly == "StateWriteOnly"

CIStr(l) == [L |-> l]

\* ColumnInfos2Columns: one Column per ColumnInfo, in declaration order;
\* Position is the 0-based index and RetType is the column's field type.
ColumnInfos2Columns(tblName, colInfos) ==
    [i \in 1..Len(colInfos) |->
        [kind |-> "Column", ColName |-> colInfos[i].Name, TblName |-> tblName,
         RetType |-> colInfos[i].FieldType, Position |-> i - 1]]

\* Faulty variant: resolves a constituent column whatever its NOT NULL flag.
RECURSIVE findColumnAnyNull(_, _, _, _)
findColumnAnyNull(tblCols, cols, idxCol, i) ==
    IF i > Len(tblCols) THEN [find |-> FALSE, col |-> Nil]
    ELSE IF idxCol.Name.L = tblCols[i].Name.L
         THEN [find |-> TRUE, col |-> cols[i]]
         ELSE findColumnAnyNull(tblCols, cols, idxCol, i + 1)

\* for i, col := range tbl.Columns: the first column with the name of
\* idxCol decides; a nullable one leaves find false.
RECURSIVE findColumn(_, _, _, _)
findColumn(tblCols, cols, idxCol, i) ==
    IF i > Len(tblCols) THEN [find |-> FALSE, col |-> Nil]
    ELSE IF idxCol.Name.L = tblCols[i].Name.L
         THEN IF ~HasNotNullFlag(tblCols[i].FieldType.Flag)
              THEN [find |-> FALSE, col |-> Nil]
              ELSE [find |-> TRUE, col |-> cols[i]]
         ELSE findColumn(tblCols, cols, idxCol, i + 1)

\* for _, idxCol := range idx.Columns: stops at the first constituent
\* column that is not found.
RECURSIVE buildKey(_, _, _, _, _)
buildKey(tblCols, cols, idxCols, j, newKey) ==
    IF j > Len(idxCols) THEN [ok |-> TRUE, newKey |-> newKey]
    ELSE LET r == findColumn(tblCols, cols, idxCols[j], 1) IN
         IF ~r.find THEN [ok |-> FALSE, newKey |-> newKey]
         ELSE buildKey(tblCols, cols, idxCols, j + 1, Append(newKey, r.col))

\* Faulty variant: takes an index whatever its state.
RECURSIVE indexKeysAnyState(_, _, _, _)
indexKeysAnyState(t, cols, n, keys) ==
    IF n > Len(t.Indices) THEN keys
    ELSE LET idx == t.Indices[n] IN
         IF ~idx.Unique
         THEN indexKeysAnyState(t, cols, n + 1, keys)
         ELSE LET r == buildKey(t.Columns, cols, idx.Columns, 1, <<>>) IN
              indexKeysAnyState(t, cols, n + 1,
                        IF r.ok THEN Append(keys, r.newKey) ELSE keys)

\* for _, idx := range tbl.Indices
RECURSIVE indexKeys(_, _, _, _)
indexKeys(t, cols, n, keys) ==
    IF n > Len(t.Indices) THEN keys
    ELSE LET idx == t.Indices[n] IN
         IF ~idx.Unique \/ idx.State # StatePublic
         THEN indexKeys(t, cols, n + 1, keys)
         ELSE LET r == buildKey(t.Columns, cols, idx.Columns, 1, <<>>) IN
              indexKeys(t, cols, n + 1,
                        IF r.ok THEN Append(keys, r.newKey) ELSE keys)

\* if tbl.PKIsHandle: the first column with the primary-key flag.
RECURSIVE handleKey(_, _, _, _)
handleKey(t, cols, i, keys) ==
    IF i > Len(t.Columns) THEN keys
    ELSE IF HasPriKeyFlag(t.Columns[i].FieldType.Flag)
         THEN Append(keys, <<cols[i]>>)
         ELSE handleKey(t, cols, i + 1, keys)

TableInfo2Schema(t) ==
    LET cols == ColumnInfos2Columns(t.Name, t.Columns)
        idxKeys == indexKeys(t, cols, 1, <<>>)
        keys == IF t.PKIsHandle THEN handleKey(t, cols, 1, idxKeys) ELSE idxKeys
    IN  [Columns |-> cols, UniqueKeys |-> keys]

\* Inputs: the table t(a, b) with any column flags and up to MaxIdx indices
\* over one or two distinct names among a, b and z, the name of no column.
ColumnNames == <<"a", "b">>
IndexColumnNames == {"a", "b", "z"}

ColumnFlags == SUBSET {NotNullFlag, PriKeyFlag}

ColumnInfos ==
    { [i \in 1..Len(ColumnNames) |->
          [Name |-> CIStr(ColumnNames[i]), FieldType |-> [Tp |-> TypeTiny, Flag |-> fl[i]]]] :
        fl \in [1..Len(ColumnNames) -> ColumnFlags] }

IsInjective(f) == \A i, j \in DOMAIN f : f[i] = f[j] => i = j

IndexColumnLists ==
    UNION { { [j \in 1..n |-> [Name |-> CIStr(f[j])]] :
                f \in { g \in [1..n -> IndexColumnNames] : IsInjective(g) } } :
            n \in 1..Len(ColumnNames) }

IndexInfos ==
    [Unique : BOOLEAN, State : {StatePublic, StateWriteOnly}, Columns : IndexColumnLists]

TableInfos ==
    [Name : {CIStr("t")}, Columns : ColumnInfos,
     Indices : UNION { [1..n -> IndexInfos] : n \in 0..MaxIdx },
     PKIsHandle : BOOLEAN]

InitSchema ==
    /\ pc = "start"
    /\ NFIdle
    /\ FoldIdle
    /\ EvalIdle
    /\ tbl \in TableInfos
    /\ schema = NoSchema

CallTableInfo2Schema ==
    /\ pc = "start"
    /\ schema' = TableInfo2Schema(tbl)
    /\ pc' = "derived"
    /\ UNCHANGED <<tbl, nfVars, foldVars, evalVars>>

NextSchema == CallTableInfo2Schema

SpecSchema == InitSchema /\ [][NextSchema]_vars

----------------------------------------------------------------------------
(* Properties of the derived unique keys. *)

\* The position of the table column an index column names, 0 if none.
ResolvedPos(t, idxCol) ==
    IF \E i \in 1..Len(t.Columns) : t.Columns[i].Name.L = idxCol.Name.L
    THEN CHOOSE i \in 1..Len(t.Columns) : t.Columns[i].Name.L = idxCol.Name.L
    ELSE 0

AdmittedIndex(t, idx) ==
    /\ idx.Unique
    /\ idx.State = StatePublic
    /\ \A j \in 1..Len(idx.Columns) :
          /\ ResolvedPos(t, idx.Columns[j]) # 0
          /\ HasNotNullFlag(t.Columns[ResolvedPos(t, idx.Columns[j])].FieldType.Flag)

HasPrimaryColumn(t) == \E i \in 1..Len(t.Columns) : HasPriKeyFlag(t.Columns[i].FieldType.Flag)

PrimaryPos(t) ==
    CHOOSE i \in 1..Len(t.Columns) :
        /\ HasPriKeyFlag(t.Columns[i].FieldType.Flag)
        /\ \A k \in 1..(i - 1) : ~HasPriKeyFlag(t.Columns[k].FieldType.Flag)

KeyOf(t, sch, idx) ==
    [j \in 1..Len(idx.Columns) |-> sch.Columns[ResolvedPos(t, idx.Columns[j])]]

\* The keys of the admitted indices among the first n, in index order.
RECURSIVE ExpectedIndexKeys(_, _, _)
ExpectedIndexKeys(t, sch, n) ==
    IF n = 0 THEN <<>>
    ELSE ExpectedIndexKeys(t, sch, n - 1)
         \o (IF AdmittedIndex(t, t.Indices[n])
             THEN << KeyOf(t, sch, t.Indices[n]) >>
             ELSE <<>>)

ExpectedKeys(t, sch) ==
    ExpectedIndexKeys(t, sch, Len(t.Indices))
    \o (IF t.PKIsHandle /\ HasPrimaryColumn(t)
        THEN << <<sch.Columns[PrimaryPos(t)]>> >>
        ELSE <<>>)

\* C2: the UniqueKeys of the derived schema are, in index order, one key
\* per unique public index all of whose columns resolve to NOT NULL table
\* columns (the resolved columns in index-column order), followed by the
\* singleton key of the primary-key column when PKIsHandle is set.
C2_KeyDerivation ==
    pc = "derived" =>
        /\ Len(schema.Columns) = Len(tbl.Columns)
        /\ \A i \in 1..Len(tbl.Columns) :
              /\ schema.Columns[i].ColName = tbl.Columns[i].Name
              /\ schema.Columns[i].Position = i - 1
        /\ schema.UniqueKeys = ExpectedKeys(tbl, schema)

\* An index over a NOT NULL column is admitted, one with a nullable column
\* is not, and the handle key follows.
C2_Witness ==
    /\ pc = "derived"
    /\ tbl.PKIsHandle
    /\ HasNotNullFlag(tbl.Columns[1].FieldType.Flag)
    /\ HasPriKeyFlag(tbl.Columns[1].FieldType.Flag)
    /\ ~HasNotNullFlag(tbl.Columns[2].FieldType.Flag)
    /\ Len(tbl.Indices) = 2
    /\ tbl.Indices[1] = [Unique |-> TRUE, State |-> StatePublic,
                         Columns |-> <<[Name |-> CIStr("a")]>>]
    /\ tbl.Indices[2] = [Unique |-> TRUE, State |-> StatePublic,
                         Columns |-> <<[Name |-> CIStr("a")], [Name |-> CIStr("b")]>>]
    /\ schema.UniqueKeys = << <<schema.Columns[1]>>, <<schema.Columns[1]>> >>

KeyColumnsNotNull(key) ==
    \A j \in 1..Len(key) : HasNotNullFlag(key[j].RetType.Flag)

StemsFromIndex(t, key) ==
    \E n \in 1..Len(t.Indices) :
        /\ t.Indices[n].Unique
        /\ t.Indices[n].State = StatePublic
        /\ Len(t.Indices[n].Columns) = Len(key)
        /\ \A j \in 1..Len(key) : t.Indices[n].Columns[j].Name.L = key[j].ColName.L

IsHandleKey(t, key) ==
    /\ t.PKIsHandle
    /\ Len(key) = 1
    /\ HasPriKeyFlag(key[1].RetType.Flag)

\* C5 as stated: every key of the derived schema has only NOT NULL columns
\* and stems from a unique public index.
C5_AdmissionAsStated ==
    pc = "derived" =>
        \A k \in 1..Len(schema.UniqueKeys) :
            /\ KeyColumnsNotNull(schema.UniqueKeys[k])
            /\ StemsFromIndex(tbl, schema.UniqueKeys[k])

\* C5 as amended: every key of the derived schema either has only NOT NULL
\* columns and stems from a unique public index, or is the last key and is
\* the singleton of a primary-key column of a table with PKIsHandle.
C5_Admission ==
    pc = "derived" =>
        \A k \in 1..Len(schema.UniqueKeys) :
            \/ /\ KeyColumnsNotNull(schema.UniqueKeys[k])
               /\ StemsFromIndex(tbl, schema.UniqueKeys[k])
            \/ /\ k = Len(schema.UniqueKeys)
               /\ IsHandleKey(tbl, schema.UniqueKeys[k])

C5_Witness ==
    /\ pc = "derived"
    /\ tbl.PKIsHandle
    /\ Len(schema.UniqueKeys) = 2
    /\ Len(schema.UniqueKeys[1]) = 2
    /\ KeyColumnsNotNull(schema.UniqueKeys[1])
    /\ StemsFromIndex(tbl, schema.UniqueKeys[1])
    /\ IsHandleKey(tbl, schema.UniqueKeys[2])
    /\ ~StemsFromIndex(tbl, schema.UniqueKeys[2])

----------------------------------------------------------------------------
(* Null-substitution folder. *)

IsNull(d) == d.k = KindNull

\* Evaluation of a function over constant arguments: three-valued logic
\* for the boolean operators, NULL-propagating equality.
EvalFunc(funcName, a, b) ==
    CASE funcName = AndAnd ->
            IF (~IsNull(a) /\ a.i = 0) \/ (~IsNull(b) /\ b.i = 0) THEN IntDatum(0)
            ELSE IF IsNull(a) \/ IsNull(b) THEN NullDatum
            ELSE IntDatum(1)
      [] funcName = OrOr ->
            IF (~IsNull(a) /\ a.i # 0) \/ (~IsNull(b) /\ b.i # 0) THEN IntDatum(1)
            ELSE IF IsNull(a) \/ IsNull(b) THEN NullDatum
            ELSE IntDatum(0)
      [] OTHER ->
            IF IsNull(a) \/ IsNull(b) THEN NullDatum
            ELSE IF a = b THEN IntDatum(1) ELSE IntDatum(0)

\* FoldConstant: a function all of whose arguments are constants is
\* replaced by the constant it evaluates to; anything else is returned as is.
FoldConstant(e) ==
    IF IsFunc(e) /\ \A i \in 1..Len(GetArgs(e)) : GetArgs(e)[i].kind = "Constant"
    THEN Constant(EvalFunc(e.FuncName, GetArgs(e)[1].Value, GetArgs(e)[2].Value),
                  e.RetType, FreshAddr)
    ELSE e

\* schema.Contains(col): the schema has this column (whatever node refers
\* to it).
Contains(sch, col) ==
    \E i \in 1..Len(sch.Columns) : sch.Columns[i].ColName = col.ColName

\* Constant.Clone: con := *c; return &con, a new node with the same fields.
Clone(c) == [c EXCEPT !.addr = FreshAddr]

\* Faulty variant: leaves every column in place.
substituteColumnNever(sch, x) == x

\* case *Column of EvaluateExprWithNull
substituteColumn(sch, x) ==
    IF ~Contains(sch, x) THEN x
    ELSE Constant(NullDatum, NewFieldType(TypeNull), FreshAddr)

\* The constant the folder puts in place of a column of the schema.
NullConstant == substituteColumn([Columns |-> <<ColA>>], ColA)

RECURSIVE EvaluateExprWithNull(_, _, _)
RECURSIVE evaluateArgs(_, _, _, _, _)

\* for i, arg := range x.GetArgs(): stops at the first error.
evaluateArgs(c, sch, xargs, i, args) ==
    IF i > Len(xargs) THEN [args |-> args, err |-> FALSE]
    ELSE LET r == EvaluateExprWithNull(c, sch, xargs[i]) IN
         IF r.err THEN [args |-> args, err |-> TRUE]
         ELSE evaluateArgs(c, sch, xargs, i + 1, Append(args, r.expr))

EvaluateExprWithNull(c, sch, x) ==
    CASE x.kind = "ScalarFunction" ->
            LET a == evaluateArgs(c, sch, GetArgs(x), 1, <<>>) IN
            IF a.err THEN [expr |-> Nil, err |-> TRUE]
            ELSE LET n == NewFunction(x \notin c.fails, x.FuncName,
                                      NewFieldType(TypeTiny), a.args) IN
                 IF n.err THEN [expr |-> Nil, err |-> TRUE]
                 ELSE [expr |-> FoldConstant(n.expr), err |-> FALSE]
      [] x.kind = "Column" -> [expr |-> substituteColumn(sch, x), err |-> FALSE]
      [] OTHER -> [expr |-> Clone(x), err |-> FALSE]

\* The function nodes of a tree: the calls of NewFunction the folder makes.
RECURSIVE FuncSubtrees(_)
FuncSubtrees(e) ==
    IF IsFunc(e)
    THEN {e} \cup UNION { FuncSubtrees(GetArgs(e)[i]) : i \in 1..Len(GetArgs(e)) }
    ELSE {}

\* Schemas over the columns a and b; their nodes are not those of the tree.
NullSchemas ==
    { [Columns |-> cs, UniqueKeys |-> <<>>] :
        cs \in { <<>>, <<Column("a", "s1")>>, <<Column("b", "s2")>>,
                 <<Column("a", "s1"), Column("b", "s2")>> } }

InitFold ==
    /\ pc = "start"
    /\ SchemaIdle
    /\ EvalIdle
    /\ conditions = <<>>
    /\ composedOp = NoOp
    /\ splitOp = NoOp
    /\ items = <<>>
    /\ IsTreeUpTo(onExpr, Atoms, FoldLeaves)
    /\ ctx \in [fails : SUBSET FuncSubtrees(onExpr)]
    /\ nullSchema \in NullSchemas
    /\ folded = NotFolded

CallEvaluateExprWithNull ==
    /\ pc = "start"
    /\ folded' = EvaluateExprWithNull(ctx, nullSchema, onExpr)
    /\ pc' = "folded"
    /\ UNCHANGED <<nullSchema, nfVars, schemaVars, evalVars>>

NextFold == CallEvaluateExprWithNull

SpecFold == InitFold /\ [][NextFold]_vars

----------------------------------------------------------------------------
(* Properties of the folder. *)

\* The column nodes of a tree, left to right.
RECURSIVE ColumnRefs(_)
ColumnRefs(e) ==
    IF IsFunc(e)
    THEN ConcatAll([i \in 1..Len(GetArgs(e)) |-> ColumnRefs(GetArgs(e)[i])])
    ELSE IF e.kind = "Column" THEN <<e>> ELSE <<>>

RECURSIVE Keep(_, _)
Keep(seq, sch) ==
    IF seq = <<>> THEN <<>>
    ELSE (IF Contains(sch, Head(seq)) THEN <<>> ELSE <<Head(seq)>>)
         \o Keep(Tail(seq), sch)

IsNullConstant(e) ==
    e.kind = "Constant" /\ IsNull(e.Value) /\ e.RetType.Tp = TypeNull

\* C9: when the folder returns without error the column references of the
\* result are exactly the column nodes of the input that are not in the
\* schema, in their original order (so none of the schema remains and,
\* with an empty schema, none is added, removed or replaced); a column of
\* the schema has become a NULL constant of the null type wherever the
\* node holding it was not folded away.
C9_NullSubstitution ==
    (pc = "folded" /\ ~folded.err) =>
        /\ ColumnRefs(folded.expr) = Keep(ColumnRefs(onExpr), nullSchema)
        /\ \A i \in 1..Len(ColumnRefs(folded.expr)) :
              ~Contains(nullSchema, ColumnRefs(folded.expr)[i])
        /\ nullSchema.Columns = <<>> => ColumnRefs(folded.expr) = ColumnRefs(onExpr)
        /\ (onExpr.kind = "Column" /\ Contains(nullSchema, onExpr))
              => IsNullConstant(folded.expr)
        /\ (IsFunc(onExpr) /\ IsFunc(folded.expr)) =>
              \A i \in 1..Len(GetArgs(onExpr)) :
                 (GetArgs(onExpr)[i].kind = "Column" /\ Contains(nullSchema, GetArgs(onExpr)[i]))
                    => IsNullConstant(GetArgs(folded.expr)[i])

C9_Witness ==
    /\ pc = "folded"
    /\ ~folded.err
    /\ nullSchema.Columns = <<Column("a", "s1")>>
    /\ onExpr = ScalarFunction(AndAnd, NewFieldType(TypeTiny),
                   << ScalarFunction(EQ, NewFieldType(TypeTiny), <<ColA, One>>), ColB >>)
    /\ folded.expr = ScalarFunction(AndAnd, NewFieldType(TypeTiny),
                   << Constant(NullDatum, NewFieldType(TypeTiny), FreshAddr), ColB >>)

----------------------------------------------------------------------------
(* Typed evaluation through the shared coercion base. *)

NoErr == [msg |-> "", traced |-> FALSE]
ErrEval == [msg |-> "eval", traced |-> FALSE]
ErrConvert == [msg |-> "convert", traced |-> FALSE]

\* errors.Trace: nil stays nil, an error is annotated and keeps its cause.
Trace(err) == IF err = NoErr THEN NoErr ELSE [err EXCEPT !.traced = TRUE]

ClassInt == "ClassInt"
ClassReal == "ClassReal"
ClassString == "ClassString"
ClassDecimal == "ClassDecimal"

\* FieldType.ToClass
ToClass(ft) ==
    CASE ft.Tp = TypeTiny -> ClassInt
      [] ft.Tp = TypeDouble -> ClassReal
      [] ft.Tp = TypeNewDecimal -> ClassDecimal
      [] OTHER -> ClassString

\* The values the typed evaluations return.
IntVal(n) == [t |-> "int64", n |-> n, s |-> "", nil |-> FALSE]
RealVal(n) == [t |-> "float64", n |-> n, s |-> "", nil |-> FALSE]
StringVal(str) == [t |-> "string", n |-> 0, s |-> str, nil |-> FALSE]
DecimalVal(n) == [t |-> "*MyDecimal", n |-> n, s |-> "", nil |-> FALSE]
NilDecimal == [t |-> "*MyDecimal", n |-> 0, s |-> "", nil |-> TRUE]

\* Direct accessors of a datum: the payload as it is.
GetInt64(d) == d.i
GetFloat64(d) == d.i
GetMysqlDecimal(d) == d.i

\* Conversions of a datum: a string converts to a number when it spells
\* one, and fails otherwise.
ToNumber(d) ==
    CASE d.k = KindInt64 -> [res |-> d.i, err |-> NoErr]
      [] d.k = KindString /\ d.s = "1" -> [res |-> 1, err |-> NoErr]
      [] d.k = KindString /\ d.s = "0" -> [res |-> 0, err |-> NoErr]
      [] OTHER -> [res |-> 0, err |-> ErrConvert]

ToInt64(d) == ToNumber(d)
ToFloat64(d) == ToNumber(d)
ToDecimal(d) == ToNumber(d)

ToString(d) ==
    CASE d.k = KindString -> [res |-> d.s, err |-> NoErr]
      [] d.k = KindInt64 /\ d.i = 0 -> [res |-> "0", err |-> NoErr]
      [] d.k = KindInt64 /\ d.i = 1 -> [res |-> "1", err |-> NoErr]
      [] OTHER -> [res |-> "", err |-> ErrConvert]

\* Constant.GetType returns RetType; any other expression its declared type.
GetType(h, a) == h[a].RetType

\* Constant.Eval returns Value and no error; any other expression returns
\* the outcome it was given.
Eval(h, a) ==
    IF h[a].kind = "Constant"
    THEN [val |-> h[a].Value, err |-> NoErr]
    ELSE [val |-> h[a].Value, err |-> h[a].evalErr]

\* The outcome of a call: the three results, whether the call panicked, and
\* how many times it invoked Eval.
Returned(val, isNull, err, evals) ==
    [val |-> val, isNull |-> isNull, err |-> err, panic |-> FALSE, evals |-> evals]

\* be.self.GetType() on a nil self: nil pointer dereference.
Panicked ==
    [val |-> IntVal(0), isNull |-> FALSE, err |-> NoErr, panic |-> TRUE, evals |-> 0]

\* Faulty variant: evaluates whatever the declared type is and drops the error
\* of Eval.
EvalIntUnguarded(h, a) ==
    LET self == h[a].self IN
    IF self = NilAddr THEN Panicked
    ELSE LET r == Eval(h, self) IN
         IF IsNull(r.val) THEN Returned(IntVal(0), TRUE, NoErr, 1)
         ELSE IF ToClass(GetType(h, self)) = ClassInt
              THEN Returned(IntVal(GetInt64(r.val)), FALSE, NoErr, 1)
              ELSE LET c == ToInt64(r.val) IN
                   Returned(IntVal(c.res), FALSE, Trace(c.err), 1)

EvalInt(h, a) ==
    LET self == h[a].self IN
    IF self = NilAddr THEN Panicked
    ELSE IF GetType(h, self).Tp = TypeNull THEN Returned(IntVal(0), TRUE, NoErr, 0)
    ELSE LET r == Eval(h, self) IN
         IF r.err # NoErr \/ IsNull(r.val)
         THEN Returned(IntVal(0), IsNull(r.val), Trace(r.err), 1)
         ELSE IF ToClass(GetType(h, self)) = ClassInt
              THEN Returned(IntVal(GetInt64(r.val)), FALSE, NoErr, 1)
              ELSE LET c == ToInt64(r.val) IN
                   Returned(IntVal(c.res), FALSE, Trace(c.err), 1)

EvalReal(h, a) ==
    LET self == h[a].self IN
    IF self = NilAddr THEN Panicked
    ELSE IF GetType(h, self).Tp = TypeNull THEN Returned(RealVal(0), TRUE, NoErr, 0)
    ELSE LET r == Eval(h, self) IN
         IF r.err # NoErr \/ IsNull(r.val)
         THEN Returned(RealVal(0), IsNull(r.val), Trace(r.err), 1)
         ELSE IF ToClass(GetType(h, self)) = ClassReal
              THEN Returned(RealVal(GetFloat64(r.val)), FALSE, NoErr, 1)
              ELSE LET c == ToFloat64(r.val) IN
                   Returned(RealVal(c.res), FALSE, Trace(c.err), 1)

EvalString(h, a) ==
    LET self == h[a].self IN
    IF self = NilAddr THEN Panicked
    ELSE IF GetType(h, self).Tp = TypeNull THEN Returned(StringVal(""), TRUE, NoErr, 0)
    ELSE LET r == Eval(h, self) IN
         IF r.err # NoErr \/ IsNull(r.val)
         THEN Returned(StringVal(""), IsNull(r.val), Trace(r.err), 1)
         ELSE LET c == ToString(r.val) IN
              Returned(StringVal(c.res), FALSE, Trace(c.err), 1)

EvalDecimal(h, a) ==
    LET self == h[a].self IN
    IF self = NilAddr THEN Panicked
    ELSE IF GetType(h, self).Tp = TypeNull THEN Returned(NilDecimal, TRUE, NoErr, 0)
    ELSE LET r == Eval(h, self) IN
         IF r.err # NoErr \/ IsNull(r.val)
         THEN Returned(NilDecimal, IsNull(r.val), Trace(r.err), 1)
         ELSE IF ToClass(GetType(h, self)) = ClassDecimal
              THEN Returned(DecimalVal(GetMysqlDecimal(r.val)), FALSE, NoErr, 1)
              ELSE LET c == ToDecimal(r.val) IN
                   Returned(DecimalVal(c.res), FALSE, Trace(c.err), 1)

\* Addresses: P1 holds the constant under study, P2 another expression a
\* base can be bound to, P3 receives the clone of P1.
P1 == "p1"
P2 == "p2"
P3 == "p3"
Addrs == {P1, P2, P3}

Values == {NullDatum, IntDatum(1), StringDatum("x")}
DeclaredTypes == {TypeNull, TypeTiny, TypeDouble, TypeNewDecimal, TypeVarchar}
AssignedTypes == {TypeNull, TypeTiny, TypeDouble}

\* The constants this code constructs.
BuiltConstants == {One, Zero, Null, NullConstant}

\* An expression of another variant: its declared type and what its Eval
\* returns are inputs.
OtherExprs ==
    { [kind |-> "Expr", Value |-> v, RetType |-> NewFieldType(tp), evalErr |-> e,
       addr |-> P2] :
        v \in Values, tp \in DeclaredTypes, e \in {NoErr, ErrEval} }

IsConstantAt(a) == heap[a].kind = "Constant"

InitEval ==
    /\ pc = "start"
    /\ NFIdle
    /\ SchemaIdle
    /\ FoldIdle
    /\ \E c \in BuiltConstants, o \in OtherExprs :
          heap = [a \in Addrs |->
                    CASE a = P1 -> [c EXCEPT !.addr = P1]
                      [] a = P2 -> o
                      [] OTHER -> Free]
    /\ ret = NoCall

\* be.SetSelf(expr): a constant is bound to itself or to another expression.
SetSelf(a, expr) ==
    /\ IsConstantAt(a)
    /\ heap[a].self # expr
    /\ heap' = [heap EXCEPT ![a].self = expr]
    /\ ret' = NoCall
    /\ UNCHANGED <<pc, nfVars, schemaVars, foldVars>>

\* c2 = c.Clone(), c at P1 and c2 at P3.
CloneConstant ==
    /\ heap[P3] = Free
    /\ heap' = [heap EXCEPT ![P3] = [Clone(heap[P1]) EXCEPT !.addr = P3]]
    /\ ret' = NoCall
    /\ UNCHANGED <<pc, nfVars, schemaVars, foldVars>>

\* c.Value = v
AssignValue(a, v) ==
    /\ IsConstantAt(a)
    /\ heap[a].Value # v
    /\ heap' = [heap EXCEPT ![a].Value = v]
    /\ ret' = NoCall
    /\ UNCHANGED <<pc, nfVars, schemaVars, foldVars>>

\* c.RetType = types.NewFieldType(tp)
AssignRetType(a, tp) ==
    /\ IsConstantAt(a)
    /\ heap[a].RetType # NewFieldType(tp)
    /\ heap' = [heap EXCEPT ![a].RetType = NewFieldType(tp)]
    /\ ret' = NoCall
    /\ UNCHANGED <<pc, nfVars, schemaVars, foldVars>>

CallEvalInt(a) ==
    /\ IsConstantAt(a)
    /\ ret' = [method |-> "EvalInt", recv |-> a, res |-> EvalInt(heap, a)]
    /\ UNCHANGED <<pc, heap, nfVars, schemaVars, foldVars>>

CallEvalReal(a) ==
    /\ IsConstantAt(a)
    /\ ret' = [method |-> "EvalReal", recv |-> a, res |-> EvalReal(heap, a)]
    /\ UNCHANGED <<pc, heap, nfVars, schemaVars, foldVars>>

CallEvalString(a) ==
    /\ IsConstantAt(a)
    /\ ret' = [method |-> "EvalString", recv |-> a, res |-> EvalString(heap, a)]
    /\ UNCHANGED <<pc, heap, nfVars, schemaVars, foldVars>>

CallEvalDecimal(a) ==
    /\ IsConstantAt(a)
    /\ ret' = [method |-> "EvalDecimal", recv |-> a, res |-> EvalDecimal(heap, a)]
    /\ UNCHANGED <<pc, heap, nfVars, schemaVars, foldVars>>

NextEval ==
    \/ \E a \in {P1, P3} : SetSelf(a, a)
    \/ \E a \in {P1, P3} : SetSelf(a, P2)
    \/ CloneConstant
    \/ \E a \in {P1, P3}, v \in Values : AssignValue(a, v)
    \/ \E a \in {P1, P3}, tp \in AssignedTypes : AssignRetType(a, tp)
    \/ \E a \in {P1, P3} : CallEvalInt(a)
    \/ \E a \in {P1, P3} : CallEvalReal(a)
    \/ \E a \in {P1, P3} : CallEvalString(a)
    \/ \E a \in {P1, P3} : CallEvalDecimal(a)

SpecEval == InitEval /\ [][NextEval]_vars

----------------------------------------------------------------------------
(* Properties of typed evaluation. *)

ZeroValue(method) ==
    CASE method = "EvalInt" -> IntVal(0)
      [] method = "EvalReal" -> RealVal(0)
      [] method = "EvalString" -> StringVal("")
      [] OTHER -> NilDecimal

\* C3: a typed evaluation through a base bound to an expression returns
\* (zero value, isNull, no error) without invoking Eval when the declared
\* type of the expression is the null type; otherwise it invokes Eval,
\* returns the error of Eval as its error, and returns (zero value, isNull,
\* no error) when Eval yields null without error.
C3_CoercionProtocol ==
    (ret # NoCall /\ heap[ret.recv].self # NilAddr) =>
        LET e == heap[ret.recv].self
            out == Eval(heap, e)
            isZeroNull == /\ ret.res.val = ZeroValue(ret.method)
                          /\ ret.res.isNull
                          /\ ret.res.err = NoErr
        IN  /\ ~ret.res.panic
            /\ GetType(heap, e).Tp = TypeNull => (isZeroNull /\ ret.res.evals = 0)
            /\ GetType(heap, e).Tp # TypeNull =>
                  /\ ret.res.evals = 1
                  /\ out.err # NoErr =>
                        (ret.res.err # NoErr /\ ret.res.err.msg = out.err.msg)
                  /\ (out.err = NoErr /\ IsNull(out.val)) => isZeroNull

C3_Witness ==
    /\ ret # NoCall
    /\ ret.method = "EvalInt"
    /\ heap[ret.recv].self = P2
    /\ GetType(heap, P2).Tp = TypeTiny
    /\ heap[P2].evalErr = ErrEval
    /\ ret.res.err = Trace(ErrEval)
    /\ ret.res.evals = 1

\* C4: a typed evaluation of a constant this code constructs, or of a clone
\* of one, completes with a result and never panics, whether or not SetSelf
\* was called on it.
C4_NoPanic ==
    ret # NoCall => ~ret.res.panic

\* Everything that can be evaluated on the object at a.
Results(h, a) ==
    << Eval(h, a), GetType(h, a), EvalInt(h, a), EvalReal(h, a),
       EvalString(h, a), EvalDecimal(h, a) >>

OnlyFieldsAssigned(a) ==
    /\ heap'[a] # heap[a]
    /\ heap'[a].self = heap[a].self
    /\ \A b \in Addrs \ {a} : heap'[b] = heap[b]

\* C7: once P3 holds the clone of P1, assigning a Value or RetType to the
\* original changes no result of the clone, and assigning one to the clone
\* changes no result of the original.
C7_CloneIndependence ==
    [][ (heap[P3] # Free) =>
           /\ OnlyFieldsAssigned(P1) => Results(heap', P3) = Results(heap, P3)
           /\ OnlyFieldsAssigned(P3) => Results(heap', P1) = Results(heap, P1) ]_vars

====
